---------------------------- MODULE Spec2Model ----------------------------
(***************************************************************************)
(* Rolling empirical-distribution spike classifier of                      *)
(* src/statistical/identify_spikes.py: the scan loop of __main__ (lines    *)
(* 484-530) and build_histogram (lines 246-295).                           *)
(*                                                                         *)
(* Water levels are decimals with three places in the source; the model    *)
(* holds them as integers in units of 0.001 (so buffer = 0.15 is 150) and  *)
(* computes bin centers, the CDF and the interpolation exactly, as         *)
(* fractions (the rounding error of binary floating point is not           *)
(* modelled).  A float is a record: NaN, or a finite value v.              *)
(***************************************************************************)
EXTENDS Integers, Sequences, FiniteSets, TLC

VARIABLES data, index, are_spikes, pc, last, completed, first, counts, summary,
          hsub, hprev, hout, hpc

vars == <<data, index, are_spikes, pc, last, completed, first, counts, summary,
          hsub, hprev, hout, hpc>>

---------------------------------------------------------------------------
(* Program constants (identify_spikes.py lines 38-57).                     *)
period == 1
interval == (period * 24 * 60) \div 6
min_entries == 100
nbins == 80
\* cdf_limits = (0.00023, 0.99977), as numerators over CdfScale
CdfScale == 100000
cdf_limits == <<23, 99977>>
\* buffer = 0.15, in units of 0.001
buffer == 150
\* numpy.round (x, 3): three decimal places, the unit of the model
Milli == 1000

---------------------------------------------------------------------------
(* Floats.                                                                 *)
NaN == [nan |-> TRUE, v |-> 0]
F(x) == [nan |-> FALSE, v |-> x]
isfinite(x) == ~x.nan
\* pandas.isnull (point.raw)
isnull(x) == x.nan

\* A DataFrame row: raw, accepted, and the derived delta / true_is_spike
Abs(x) == IF x < 0 THEN -x ELSE x
delta(row) == IF row.raw.nan \/ row.accepted.nan THEN NaN
              ELSE F(row.accepted.v - row.raw.v)
\* abs (NaN) > buffer is False
true_is_spike(row) == isfinite(delta(row)) /\ Abs(delta(row).v) > buffer

Row(r, a) == [raw |-> r, accepted |-> a]

---------------------------------------------------------------------------
(* Exact arithmetic helpers.                                               *)
SetMin(S) == CHOOSE x \in S : \A y \in S : x <= y
SetMax(S) == CHOOSE x \in S : \A y \in S : x >= y

\* <<q, r>> with a * b = q * c + r and 0 <= r < c, for a >= 0, 0 <= b <= c,
\* computed without forming a * b (which would not fit a machine integer).
RECURSIVE MulDiv(_, _, _)
MulDiv(a, b, c) ==
    IF a = 0 THEN <<0, 0>>
    ELSE LET h  == MulDiv(a \div 2, b, c)
             r2 == 2 * h[2] + (a % 2) * b
         IN  <<2 * h[1] + (r2 \div c), r2 % c>>

---------------------------------------------------------------------------
(* build_histogram (lines 246-295).  subdata is a sequence of rows,        *)
(* previous_spikes a sequence of booleans.                                 *)


\* included without the test of finiteness
included_unflagged_only(subdata, previous_spikes) ==
    {i \in DOMAIN subdata : Len(previous_spikes) > 0 => ~previous_spikes[i]}

\* included without the exclusion of previously identified spikes
included_finite_only(subdata, previous_spikes) ==
    {i \in DOMAIN subdata : isfinite(subdata[i].raw)}

\* lines 269-271: positions of subdata that are finite and, when
\* previous_spikes is not empty, not previously identified spikes
included(subdata, previous_spikes) ==
    {i \in DOMAIN subdata :
        /\ isfinite(subdata[i].raw)
        /\ (Len(previous_spikes) > 0 => ~previous_spikes[i])}

\* included_values taken from the accepted column
included_values_accepted(subdata, inc) == {<<i, subdata[i].accepted.v>> : i \in inc}

\* subdata.raw.values[isfinite], line 273: the included readings, each with
\* its position
included_values(subdata, inc) == {<<i, subdata[i].raw.v>> : i \in inc}

\* numpy.histogram (a, bins=nbins), line 273: the outer edges.  An empty
\* input has the range (0, 1); equal minimum and maximum are widened by 0.5
\* on each side.
edges(values) ==
    LET vs == {p[2] : p \in values}
    IN  IF vs = {} THEN [first |-> 0, last |-> Milli]
        ELSE IF SetMin(vs) = SetMax(vs)
        THEN [first |-> SetMin(vs) - Milli \div 2, last |-> SetMax(vs) + Milli \div 2]
        ELSE [first |-> SetMin(vs), last |-> SetMax(vs)]

\* numpy.histogram, line 273: the bin (0 .. nbins-1) a value falls in; bins
\* are half-open except the last, which holds the maximum
bin_of(v, e) ==
    IF v = e.last THEN nbins - 1
    ELSE ((v - e.first) * nbins) \div (e.last - e.first)

\* the bin of every included reading
binned(values, e) == {<<p[1], bin_of(p[2], e)>> : p \in values}

\* line 273: hist[k], the number of included readings in bin k
hist(bins, k) == Cardinality({p \in bins : p[2] = k})

\* cumhist without the running sum (numpy.cumsum left out): the count of
\* bin k alone
cumhist_plain(bins, k) == Cardinality({p \in bins : p[2] = k})

\* line 278, numerator of cdf: the running sum of hist over bins 0..k; the
\* cdf at bin k is cumhist / n, with n = numpy.sum (hist)
cumhist(bins, k) == Cardinality({p \in bins : p[2] <= k})

\* line 277: bincenter[k] = edges[k] + (edges[k+1] - edges[k]) / 2, as a
\* numerator over 2 * nbins
bincenter(e, k) == 2 * nbins * e.first + (2 * k + 1) * (e.last - e.first)

\* A point of the interpolated inverse cdf: NaN, or
\* bincenter[j] + (num / den) * (bin width), with 0 <= num <= den
NaNPoint == [nan |-> TRUE, j |-> 0, num |-> 0, den |-> 1]
Center(k) == [nan |-> FALSE, j |-> k, num |-> 0, den |-> 1]


\* icdf as the empirical quantile: the center of the first bin whose cdf
\* reaches p, without interpolation
icdf_quantile(bins, P) ==
    LET n  == Cardinality(bins)
        reach == {k \in 0..(nbins - 1) : CdfScale * cumhist(bins, k) >= P * n}
    IN  IF n = 0 THEN NaNPoint ELSE Center(SetMin(reach))

\* lines 282-284: icdf (p) for p = P / CdfScale.  interp1d sorts the points
\* by cdf (already non-decreasing), answers NaN (bounds_error=False) outside
\* [cdf[0], cdf[-1]] and wherever the cdf itself is NaN (no included
\* reading: 0 / 0), and otherwise interpolates linearly between the two
\* neighbouring points, bins j and j + 1 with cdf[j] <= p < cdf[j + 1].
\* The cdf rises only at a bin that holds a reading, so j + 1 is the first
\* such bin whose cdf exceeds p.  (p equal to a cdf value would need a
\* number of readings that is a multiple of CdfScale for these cdf_limits;
\* numpy.interp then answers the center of the last bin with that cdf.)
icdf(bins, P) ==
    LET n  == Cardinality(bins)
        above == {b \in {p[2] : p \in bins} : CdfScale * cumhist(bins, b) > P * n}
        j  == IF above = {} THEN nbins - 1 ELSE SetMin(above) - 1
    IN  IF n = 0 THEN NaNPoint
        ELSE IF P * n < CdfScale * cumhist(bins, 0)
                \/ P * n > CdfScale * cumhist(bins, nbins - 1)
        THEN NaNPoint
        ELSE IF j = nbins - 1 \/ CdfScale * cumhist(bins, j) = P * n
        THEN Center(j)
        ELSE [nan |-> FALSE, j |-> j,
              num |-> P * n - CdfScale * cumhist(bins, j),
              den |-> CdfScale * hist(bins, j + 1)]

\* lines 286-287: a bound that is not finite becomes the min / max bin center
lower_or_min(q) == IF q.nan THEN Center(0) ELSE q

\* upper_or_max with the minimum taken for the maximum
upper_or_min(q) == IF q.nan THEN Center(0) ELSE q

upper_or_max(q) == IF q.nan THEN Center(nbins - 1) ELSE q

\* round3 cutting the digits after the third (towards minus infinity)
\* instead of rounding
round3_down(e, q) ==
    (bincenter(e, q.j) + MulDiv(2 * (e.last - e.first), q.num, q.den)[1]) \div (2 * nbins)

\* numpy.round (x, 3), line 289: x = bincenter[q.j] + (q.num / q.den) * width
\* rounded to the unit, halves to the even neighbour
round3(e, q) ==
    LET two == 2 * nbins
        md  == MulDiv(2 * (e.last - e.first), q.num, q.den)
        s   == bincenter(e, q.j) + md[1] + nbins
        t   == s \div two
        tie == md[2] = 0 /\ s % two = 0
    IN  IF tie /\ t % 2 = 1 THEN t - 1 ELSE t


\* with_buffer with the buffer added twice
with_buffer_twice(lo, up) == <<lo - 2 * buffer, up + 2 * buffer>>

\* with_buffer with the signs exchanged: the interval shrinks
with_buffer_inward(lo, up) == <<lo + buffer, up - buffer>>

\* line 289: round, then widen by the buffer
with_buffer(lo, up) == <<lo - buffer, up + buffer>>

\* The exceptions numpy raises inside build_histogram: ValueError at line
\* 271 when the two masks differ in length (a previous_spikes of one entry
\* is broadcast), ValueError at line 273 when a reading handed to
\* numpy.histogram is not finite (the range of the bins is not finite).
\* An empty input is no error (range (0, 1)), nor is 0 / 0 at line 278 (a
\* warning, the cdf is NaN), nor NaN in interp1d (bounds_error=False).
raises(subdata, previous_spikes, inc) ==
    \/ Len(previous_spikes) > 1 /\ Len(previous_spikes) # Len(subdata)
    \/ \E i \in inc : ~isfinite(subdata[i].raw)

build_histogram(subdata, previous_spikes) ==
    LET inc  == included(subdata, previous_spikes)
        e    == edges(included_values(subdata, inc))
        bins == binned(included_values(subdata, inc), e)
        ql   == icdf(bins, cdf_limits[1])
        qu   == icdf(bins, cdf_limits[2])
        l0   == lower_or_min(ql)
        u0   == upper_or_max(qu)
        lim  == with_buffer(round3(e, l0), round3(e, u0))
    IN  [inc |-> inc, n |-> Cardinality(inc), edges |-> e, bins |-> bins,
         icdf |-> <<ql, qu>>, bound |-> <<l0, u0>>, limit_range |-> lim,
         raised |-> raises(subdata, previous_spikes, inc)]

---------------------------------------------------------------------------
(* The scan loop of __main__ (lines 484-530).  Row i of the DataFrame      *)
(* (0-based, as in the source) is data[i + 1].                             *)

Max(a, b) == IF a >= b THEN a ELSE b
Min(a, b) == IF a <= b THEN a ELSE b


\* is_warmup with the warm-up one row short
is_warmup_short(i) == i < min_entries - 1

\* line 489: the warm-up test
is_warmup(i) == i < min_entries

\* begin_index one row further back
begin_index_longer(i) == Max(0, i - interval - 1)

\* lines 491-492
begin_index(i) == Max(0, i - interval)
end_index(i)   == Max(0, i - 1)

\* seq[b:e], a Python slice with 0 <= b: rows b .. e-1, clipped to the length
Slice(seq, b, e) == SubSeq(seq, b + 1, Min(e, Len(seq)))

\* line 493: subdata = data.iloc[begin_index:end_index, :]
subdata_of(d, i) == Slice(d, begin_index(i), end_index(i))

\* the 0-based rows that subdata_of (d, i) holds
window_of(d, i) == {j \in 0..(Len(d) - 1) : begin_index(i) <= j /\ j < end_index(i)}

\* line 495: nValid = len (subdata.raw[numpy.isfinite (subdata.raw)])
nValid_of(subdata) == Cardinality({k \in DOMAIN subdata : isfinite(subdata[k].raw)})


\* not_enough with the threshold one entry low
not_enough_low(nValid) == nValid < min_entries - 2

\* line 496: the test that skips the row
not_enough(nValid) == nValid < min_entries - 1

\* line 503: previous_spikes = numpy.array (are_spikes[begin_index:end_index])
previous_spikes_of(spikes, i) == Slice(spikes, begin_index(i), end_index(i))


\* classify with the bounds themselves outside the good range
classify_inclusive(raw, limit_range) ==
    IF ~isnull(raw)
    THEN raw.v <= limit_range[1] \/ raw.v >= limit_range[2]
    ELSE FALSE

\* classify with a missing reading taken for a spike
classify_missing_is_spike(raw, limit_range) ==
    IF ~isnull(raw)
    THEN raw.v < limit_range[1] \/ raw.v > limit_range[2]
    ELSE TRUE

\* lines 508-510
classify(raw, limit_range) ==
    IF ~isnull(raw)
    THEN raw.v < limit_range[1] \/ raw.v > limit_range[2]
    ELSE FALSE


\* write_label on the row before the one being processed
write_label_before(spikes, i, this_is_spike) ==
    [spikes EXCEPT ![Max(1, i)] = this_is_spike]

\* write_label with the holder of predictions made anew at every row
write_label_reset(spikes, i, this_is_spike) ==
    [k \in DOMAIN spikes |-> IF k = i + 1 THEN this_is_spike ELSE FALSE]

\* line 511: are_spikes[index] = this_is_spike
write_label(spikes, i, this_is_spike) == [spikes EXCEPT ![i + 1] = this_is_spike]

\* point_of with the row after the one being processed
point_of_next(d, i) == d[Min(i + 2, Len(d))]

\* line 487: for index, point in data.iterrows ()
point_of(d, i) == d[i + 1]

\* is_reported without the test of the true spikes
is_reported_predicted_only(d, i, this_is_spike) == this_is_spike

\* line 514: the row is reported when it is a predicted or a true spike
is_reported(d, i, this_is_spike) == this_is_spike \/ true_is_spike(d[i + 1])

\* lines 515-516: the rows the report reads, begin_index .. end_index+10-1
report_window(d, i) ==
    {j \in 0..(Len(d) - 1) : begin_index(i) <= j /\ j < end_index(i) + 10}

\* What the latest iteration did.  kind: "none" before the first iteration,
\* "warmup" (line 489), "skip" (lines 496-501), "eval" (lines 502-511),
\* "raise" (an exception inside build_histogram, line 506).
\* limit_range is <<>> when no interval was computed; inc holds the 0-based
\* rows that entered the histogram; report_read the rows the report read and
\* report_inc those that entered the histogram it plots.
NoIteration ==
    [kind |-> "none", index |-> 0, window |-> {}, nValid |-> 0, inc |-> {},
     bound |-> <<>>, limit_range |-> <<>>, this_is_spike |-> FALSE,
     reported |-> FALSE, report_read |-> {}, report_inc |-> {}]

---------------------------------------------------------------------------
(* Inputs of the scan: the rows of the CSV file (lines 462-475).           *)

\* Length of the freely chosen tail of an input
SuffixLen == 2

\* Rows the tail is drawn from: a missing reading, an ordinary one, readings
\* on and just beyond the bounds the histories below produce, a large
\* excursion; with accepted values that make true_is_spike both ways
Rows ==
    { Row(NaN, F(0)), Row(F(0), F(0)), Row(F(156), F(400)),
      Row(F(157), F(157)), Row(F(-156), F(-156)), Row(F(10000), F(0)) }

Suffixes(n) == [1..n -> Rows]

\* Histories that fill the warm-up: a constant level, a five-level cycle,
\* a constant level with its first reading missing
Flat == [i \in 1..min_entries |-> Row(F(0), F(0))]
Cycle == [i \in 1..min_entries |-> Row(F(((i - 1) % 5) * 100), F(((i - 1) % 5) * 100))]
Gap == [i \in 1..min_entries |-> IF i = 1 THEN Row(NaN, F(0)) ELSE Row(F(0), F(0))]
\* a constant level, then one excursion (row min_entries, flagged when the
\* scan reaches it)
Excursion == Flat \o <<Row(F(10000), F(0))>>
\* a level shift that lasts a whole interval: every shifted reading is
\* flagged, until the window holds flagged readings only
Shift == Flat \o [i \in 1..interval |-> Row(F(10000), F(0))]

\* a constant level after one reading far off (30.0) in the first row,
\* which the warm-up leaves unflagged
Wide == [i \in 1..min_entries |->
            IF i = 1 THEN Row(F(30 * Milli), F(30 * Milli)) ELSE Row(F(0), F(0))]

\* twice min_entries readings spread over [0, 1] (the multiples of 1/199
\* from 0 to 1, in a scattered order so that no reading stands out from
\* those before it), one more reading, then a candidate: 5.0 or 0.5.  The
\* window of the candidate holds exactly the spread readings.
Spread(step) ==
    [i \in 1..(2 * min_entries) |->
        LET v == ((((i - 1) * step) % (2 * min_entries)) * Milli) \div (2 * min_entries - 1)
        IN  Row(F(v), F(v))]
Candidates == {Row(F(5 * Milli), F(5 * Milli)), Row(F(Milli \div 2), F(Milli \div 2))}
Scenario == {Spread(step) \o <<Row(F(0), F(0)), c>> : step \in {37, 73}, c \in Candidates}

Inputs ==
    {t \o s : t \in {Flat, Cycle, Gap, Excursion}, s \in Suffixes(SuffixLen)}
    \cup {t \o s : t \in {Shift, Wide}, s \in Suffixes(1)}
    \cup UNION {Suffixes(n) : n \in 0..SuffixLen}
    \cup Scenario

---------------------------------------------------------------------------
(* The scan as a state machine.  pc = "for": between two iterations, index *)
(* is the next row; pc = "report": inside the iteration of row index,      *)
(* after its label was written; pc = "done": past the loop (line 530);     *)
(* pc = "error": the script ended with an exception.                       *)

NoOut == <<>>
\* no earlier run of the scan to compare with
NoRun == <<>>

ScanIdle ==
    /\ data = <<>> /\ index = 0 /\ are_spikes = <<>> /\ pc = "idle"
    /\ last = NoIteration /\ completed = <<>> /\ first = NoRun

\* before the performance summary (lines 536-578): no confusion matrix, no
\* measurement
NoCounts == <<>>
NoSummary == <<>>
EvalIdle == counts = NoCounts /\ summary = NoSummary

HistIdle == hsub = <<>> /\ hprev = <<>> /\ hout = NoOut /\ hpc = "idle"

\* line 484: are_spikes = [False] * len (data)
Init ==
    /\ data \in Inputs
    /\ index = 0
    /\ are_spikes = [i \in 1..Len(data) |-> FALSE]
    /\ pc = "for"
    /\ last = NoIteration
    /\ completed = <<>>
    /\ first = NoRun
    /\ EvalIdle
    /\ HistIdle

\* line 489: if index < min_entries: continue
Warmup ==
    /\ pc = "for" /\ index < Len(data)
    /\ is_warmup(index)
    /\ last' = [NoIteration EXCEPT !.kind = "warmup", !.index = index]
    /\ index' = index + 1
    /\ completed' = Append(completed, are_spikes[index + 1])
    /\ UNCHANGED <<data, are_spikes, pc, first, counts, summary, hsub, hprev, hout, hpc>>

\* lines 491-501: not enough valid entries before the row, continue
Skip ==
    /\ pc = "for" /\ index < Len(data)
    /\ ~is_warmup(index)
    /\ LET subdata == subdata_of(data, index)
           nValid  == nValid_of(subdata)
       IN  /\ not_enough(nValid)
           /\ last' = [NoIteration EXCEPT !.kind = "skip", !.index = index,
                          !.window = window_of(data, index), !.nValid = nValid]
    /\ index' = index + 1
    /\ completed' = Append(completed, are_spikes[index + 1])
    /\ UNCHANGED <<data, are_spikes, pc, first, counts, summary, hsub, hprev, hout, hpc>>

\* Classify with the label of a row without a raw value left to chance
Classify_missing_arbitrary ==
    /\ pc = "for" /\ index < Len(data)
    /\ ~is_warmup(index)
    /\ \E arbitrary \in BOOLEAN :
       LET subdata == subdata_of(data, index)
           nValid  == nValid_of(subdata)
           previous_spikes == previous_spikes_of(are_spikes, index)
           out == build_histogram(subdata, previous_spikes)
           limit_range == out.limit_range
           this_is_spike == IF isnull(point_of(data, index).raw) THEN arbitrary
                            ELSE classify(point_of(data, index).raw, limit_range)
           report == is_reported(data, index, this_is_spike)
       IN  /\ ~not_enough(nValid)
           /\ IF out.raised
              THEN \* the exception ends the script at line 506
                   /\ pc' = "error"
                   /\ last' = [NoIteration EXCEPT !.kind = "raise", !.index = index,
                                  !.window = window_of(data, index), !.nValid = nValid]
                   /\ UNCHANGED <<are_spikes, index, completed>>
              ELSE /\ are_spikes' = write_label(are_spikes, index, this_is_spike)
                   /\ last' = [NoIteration EXCEPT !.kind = "eval", !.index = index,
                                  !.window = window_of(data, index), !.nValid = nValid,
                                  !.inc = {begin_index(index) + k - 1 : k \in out.inc},
                                  !.bound = out.bound,
                                  !.limit_range = limit_range,
                                  !.this_is_spike = this_is_spike]
                   /\ IF report
                      THEN pc' = "report" /\ index' = index /\ completed' = completed
                      ELSE /\ pc' = "for" /\ index' = index + 1
                           /\ completed' = Append(completed, are_spikes'[index + 1])
    /\ UNCHANGED <<data, first, counts, summary, hsub, hprev, hout, hpc>>

\* lines 491-514: the interval from the window, the label of the row
Classify ==
    /\ pc = "for" /\ index < Len(data)
    /\ ~is_warmup(index)
    /\ LET subdata == subdata_of(data, index)
           nValid  == nValid_of(subdata)
           previous_spikes == previous_spikes_of(are_spikes, index)
           out == build_histogram(subdata, previous_spikes)
           limit_range == out.limit_range
           this_is_spike == classify(point_of(data, index).raw, limit_range)
           report == is_reported(data, index, this_is_spike)
       IN  /\ ~not_enough(nValid)
           /\ IF out.raised
              THEN \* the exception ends the script at line 506
                   /\ pc' = "error"
                   /\ last' = [NoIteration EXCEPT !.kind = "raise", !.index = index,
                                  !.window = window_of(data, index), !.nValid = nValid]
                   /\ UNCHANGED <<are_spikes, index, completed>>
              ELSE /\ are_spikes' = write_label(are_spikes, index, this_is_spike)
                   /\ last' = [NoIteration EXCEPT !.kind = "eval", !.index = index,
                                  !.window = window_of(data, index), !.nValid = nValid,
                                  !.inc = {begin_index(index) + k - 1 : k \in out.inc},
                                  !.bound = out.bound,
                                  !.limit_range = limit_range,
                                  !.this_is_spike = this_is_spike]
                   /\ IF report
                      THEN pc' = "report" /\ index' = index /\ completed' = completed
                      ELSE /\ pc' = "for" /\ index' = index + 1
                           /\ completed' = Append(completed, are_spikes'[index + 1])
    /\ UNCHANGED <<data, first, counts, summary, hsub, hprev, hout, hpc>>

\* Report with the label of the row taken again from the report's own
\* histogram (alimit_range of line 518)
Report_relabels ==
    /\ pc = "report"
    /\ LET asubdata == Slice(data, begin_index(index), end_index(index) + 10)
           aprevious_spikes == Slice(are_spikes, begin_index(index), end_index(index) + 10)
           ainc == included(asubdata, aprevious_spikes)
           aout == build_histogram(asubdata, aprevious_spikes)
       IN  /\ last' = [last EXCEPT !.reported = TRUE,
                          !.report_read = report_window(data, index),
                          !.report_inc = {begin_index(index) + k - 1 : k \in ainc}]
           /\ are_spikes' = write_label(are_spikes, index,
                                classify(point_of(data, index).raw, aout.limit_range))
           /\ pc' = "for"
           /\ index' = index + 1
           /\ completed' = Append(completed, are_spikes'[index + 1])
    /\ UNCHANGED <<data, first, counts, summary, hsub, hprev, hout, hpc>>

\* lines 515-527: the report of a predicted or true spike (plots and
\* prints); its histogram (line 518) is built over rows
\* begin_index .. end_index+10-1 with the labels they hold at that moment
Report ==
    /\ pc = "report"
    /\ LET asubdata == Slice(data, begin_index(index), end_index(index) + 10)
           aprevious_spikes == Slice(are_spikes, begin_index(index), end_index(index) + 10)
           ainc == included(asubdata, aprevious_spikes)
       IN  /\ last' = [last EXCEPT !.reported = TRUE,
                          !.report_read = report_window(data, index),
                          !.report_inc = {begin_index(index) + k - 1 : k \in ainc}]
           /\ IF raises(asubdata, aprevious_spikes, ainc)
              THEN \* the exception ends the script at line 518
                   pc' = "error" /\ UNCHANGED <<index, completed>>
              ELSE /\ pc' = "for"
                   /\ index' = index + 1
                   /\ completed' = Append(completed, are_spikes[index + 1])
    /\ UNCHANGED <<data, are_spikes, first, counts, summary, hsub, hprev, hout, hpc>>

\* Finish with the loop one row short
Finish_early ==
    /\ pc = "for" /\ index = Max(0, Len(data) - 1)
    /\ pc' = "done"
    /\ UNCHANGED <<data, index, are_spikes, last, completed, first, counts, summary,
                   hsub, hprev, hout, hpc>>

\* line 530: the loop is over, the predictions become a column of data
Finish ==
    /\ pc = "for" /\ index = Len(data)
    /\ pc' = "done"
    /\ UNCHANGED <<data, index, are_spikes, last, completed, first, counts, summary,
                   hsub, hprev, hout, hpc>>

---------------------------------------------------------------------------
(* Summary of model performance (lines 536-578), over the column           *)
(* pred_is_spike that line 530 makes of are_spikes.                        *)

\* lines 538-546: the number of rows of data in each of the four categories
confusion(d, spikes) ==
    LET rows == 1..Len(d)
    IN  [n_predno_trueno   |-> Cardinality({i \in rows : ~true_is_spike(d[i]) /\ ~spikes[i]}),
         n_predyes_trueno  |-> Cardinality({i \in rows : ~true_is_spike(d[i]) /\ spikes[i]}),
         n_predno_trueyes  |-> Cardinality({i \in rows : true_is_spike(d[i]) /\ ~spikes[i]}),
         n_predyes_trueyes |-> Cardinality({i \in rows : true_is_spike(d[i]) /\ spikes[i]})]

\* lines 560-563
total(c) == c.n_predno_trueno + c.n_predno_trueyes + c.n_predyes_trueno + c.n_predyes_trueyes
total_trueyes(c) == c.n_predno_trueyes + c.n_predyes_trueyes
total_trueno(c)  == c.n_predno_trueno + c.n_predyes_trueno
total_predyes(c) == c.n_predyes_trueyes + c.n_predyes_trueno

\* the quotient a / b of two Python integers, b # 0, kept as a fraction
Ratio(a, b) == <<a, b>>
\* two fractions are the same number
SameRatio(f, g) == f[1] * g[2] = g[1] * f[2]

\* a division of line 565-571 by zero raises ZeroDivisionError: the script
\* ends there and prints no measurement
ZeroDivisionError == [raised |-> TRUE]


\* measurements with the rows predicted as spikes taken for the true spikes
\* in precision and sensitivity
measurements_swapped(c) ==
    IF total(c) = 0 \/ total_predyes(c) = 0 \/ total_trueyes(c) = 0 \/ total_trueno(c) = 0
    THEN ZeroDivisionError
    ELSE [raised |-> FALSE,
          accuracy            |-> Ratio(c.n_predno_trueno + c.n_predyes_trueyes, total(c)),
          precision           |-> Ratio(c.n_predyes_trueyes, total_trueyes(c)),
          sensitivity         |-> Ratio(c.n_predyes_trueyes, total_predyes(c)),
          error_rate          |-> Ratio(c.n_predyes_trueno + c.n_predno_trueyes, total(c)),
          true_negative_rate  |-> Ratio(c.n_predno_trueno, total_trueno(c)),
          false_positive_rate |-> Ratio(c.n_predyes_trueno, total_trueno(c)),
          prevalence          |-> Ratio(c.n_predno_trueyes + c.n_predyes_trueyes, total(c))]

\* lines 565-571
measurements(c) ==
    IF total(c) = 0 \/ total_predyes(c) = 0 \/ total_trueyes(c) = 0 \/ total_trueno(c) = 0
    THEN ZeroDivisionError
    ELSE [raised |-> FALSE,
          accuracy            |-> Ratio(c.n_predno_trueno + c.n_predyes_trueyes, total(c)),
          precision           |-> Ratio(c.n_predyes_trueyes, total_predyes(c)),
          sensitivity         |-> Ratio(c.n_predyes_trueyes, total_trueyes(c)),
          error_rate          |-> Ratio(c.n_predyes_trueno + c.n_predno_trueyes, total(c)),
          true_negative_rate  |-> Ratio(c.n_predno_trueno, total_trueno(c)),
          false_positive_rate |-> Ratio(c.n_predyes_trueno, total_trueno(c)),
          prevalence          |-> Ratio(c.n_predno_trueyes + c.n_predyes_trueyes, total(c))]

\* lines 536-556: the confusion matrix of the finished scan
ConfusionMatrix ==
    /\ pc = "done" /\ counts = NoCounts
    /\ counts' = confusion(data, are_spikes)
    /\ UNCHANGED <<data, index, are_spikes, pc, last, completed, first, summary,
                   hsub, hprev, hout, hpc>>

\* lines 558-578: the measurements from the four counts
Measure ==
    /\ counts # NoCounts /\ summary = NoSummary
    /\ summary' = measurements(counts)
    /\ UNCHANGED <<data, index, are_spikes, pc, last, completed, first, counts,
                   hsub, hprev, hout, hpc>>

Next == Warmup \/ Skip \/ Classify \/ Report \/ Finish \/ ConfusionMatrix \/ Measure

Spec == Init /\ [][Next]_vars

---------------------------------------------------------------------------
(* build_histogram on its own: every window of up to MaxWindow rows over   *)
(* HistValues, with every pattern of previously identified spikes.         *)

MaxWindow == 3

HistValues == {NaN, F(0), F(3), F(400), F(-160)}

HistWindows == UNION {[1..n -> {Row(v, v) : v \in HistValues}] : n \in 0..MaxWindow}

HistInit ==
    /\ ScanIdle /\ EvalIdle
    /\ hsub \in HistWindows
    /\ hprev \in [1..Len(hsub) -> BOOLEAN]
    /\ hout = NoOut
    /\ hpc = "call"

HistCall ==
    /\ hpc = "call"
    /\ hout' = build_histogram(hsub, hprev)
    /\ hpc' = "return"
    /\ UNCHANGED <<data, index, are_spikes, pc, last, completed, first, counts, summary,
                   hsub, hprev>>

HistNext == HistCall

HistSpec == HistInit /\ [][HistNext]_vars

---------------------------------------------------------------------------
(* Two runs of the scan, one after the other: when the first is over its   *)
(* input and its labels are kept in first, and the scan starts again, on   *)
(* the same input or on one that has the same rows up to and including     *)
(* the first row past the warm-up.                                         *)

\* Length of the tail of an input of the two runs
RerunLen == 3

RerunRows == {Row(NaN, F(0)), Row(F(0), F(0)), Row(F(10000), F(0))}

RerunInputs ==
    {Flat \o s : s \in [1..RerunLen -> RerunRows]}
    \cup {Gap \o [i \in 1..RerunLen |-> Row(F(0), F(0))]}

\* Inputs longer than an interval: a first reading, ordinary or large, an
\* interval of ordinary readings, then a reading just beyond the bound of a
\* constant window.  The window of the last row begins after the first row.
Far(old) == <<old>> \o [i \in 1..interval |-> Row(F(0), F(0))] \o <<Row(F(157), F(157))>>
FarInputs == {Far(old) : old \in {Row(F(0), F(0)), Row(F(10000), F(0))}}

\* the input d with another accepted column (read at line 472)
Reaccepted(d, a) == [i \in 1..Len(d) |-> Row(d[i].raw, a)]
AcceptedValues == {NaN, F(400)}

\* The inputs of the second run: those that have the rows of d up to the
\* first row past the warm-up, those that differ from d in the first row
\* only, and d with another accepted column
Variants(d) ==
    {e \in RerunInputs :
        Len(e) = Len(d) /\ \A i \in 1..(min_entries + 1) : e[i] = d[i]}
    \cup (IF d \in FarInputs THEN FarInputs ELSE {})
    \cup {Reaccepted(d, a) : a \in AcceptedValues}

RerunInit ==
    /\ data \in RerunInputs \cup FarInputs
    /\ index = 0
    /\ are_spikes = [i \in 1..Len(data) |-> FALSE]
    /\ pc = "for"
    /\ last = NoIteration
    /\ completed = <<>>
    /\ first = NoRun
    /\ EvalIdle
    /\ HistIdle

\* the script is run again (lines 462-484)
Rerun ==
    /\ pc = "done" /\ first = NoRun
    /\ first' = [data |-> data, are_spikes |-> are_spikes]
    /\ data' \in Variants(data)
    /\ index' = 0
    /\ are_spikes' = [i \in 1..Len(data') |-> FALSE]
    /\ pc' = "for"
    /\ last' = NoIteration
    /\ completed' = <<>>
    /\ UNCHANGED <<counts, summary, hsub, hprev, hout, hpc>>

RerunNext == Warmup \/ Skip \/ Classify \/ Report \/ Finish \/ Rerun

RerunSpec == RerunInit /\ [][RerunNext]_vars

---------------------------------------------------------------------------
(* The measurements on their own: every confusion matrix with counts up to *)
(* MaxCount.                                                               *)

MaxCount == 10

Matrices ==
    [n_predno_trueno : 0..MaxCount, n_predyes_trueno : 0..MaxCount,
     n_predno_trueyes : 0..MaxCount, n_predyes_trueyes : 0..MaxCount]

MeasureInit ==
    /\ ScanIdle /\ HistIdle
    /\ counts \in Matrices
    /\ summary = NoSummary

MeasureNext == Measure

MeasureSpec == MeasureInit /\ [][MeasureNext]_vars

---------------------------------------------------------------------------
(* Properties of the scan, checked under Spec.                             *)

\* the readings of the latest iteration's row and the label it holds now
LastRaw == data[last.index + 1].raw
LastLabel == are_spikes[last.index + 1]
\* the latest iteration went past the warm-up test
PastWarmup == last.kind \in {"skip", "eval"}
\* the rows of the latest window that are finite and not flagged
LastUsable == {j \in last.window : isfinite(data[j + 1].raw) /\ ~are_spikes[j + 1]}

(* C1: pred_is_spike[i] is False for every row i < min_entries, during and *)
(* after the scan, and such a row is never evaluated: its iteration ends   *)
(* at the warm-up test, before any window or interval exists.              *)
C1_WarmupNotLabelled ==
    /\ \A i \in 0..(Len(data) - 1) : i < min_entries => ~are_spikes[i + 1]
    /\ (last.kind # "none" /\ last.index < min_entries) =>
           (last.kind = "warmup" /\ last.window = {} /\ last.limit_range = <<>>)

\* the scan is over, the last warm-up row was passed, and the first row
\* after the warm-up is a predicted spike
C1_Witness ==
    /\ pc = "done" /\ Len(data) > min_entries
    /\ are_spikes[min_entries + 1]

(* C2: at an evaluated row whose raw value is present the label is True    *)
(* exactly when raw < lower or raw > upper, (lower, upper) being the       *)
(* interval computed for that row; raw = lower and raw = upper are not     *)
(* spikes.                                                                 *)
C2_LabelIffOutside ==
    (last.kind = "eval" /\ ~isnull(LastRaw)) =>
        /\ LastLabel <=> (LastRaw.v < last.limit_range[1] \/ LastRaw.v > last.limit_range[2])
        /\ LastRaw.v \in {last.limit_range[1], last.limit_range[2]} => ~LastLabel

\* an evaluated row whose raw value is exactly the upper bound
C2_Witness ==
    /\ last.kind = "eval" /\ ~isnull(LastRaw)
    /\ LastRaw.v = last.limit_range[2]
    /\ ~LastLabel

(* C3: for every row i >= min_entries the window is exactly the rows       *)
(* max(0, i-interval) .. i-1, so it holds row i-1 and, for i >= interval,  *)
(* interval rows.                                                          *)
C3_WindowReachesPrevious ==
    PastWarmup =>
        /\ last.window = {j \in 0..(Len(data) - 1) :
                             Max(0, last.index - interval) <= j /\ j <= last.index - 1}
        /\ (last.index - 1) \in last.window
        /\ last.index >= interval => Cardinality(last.window) = interval

(* C4: the distribution of an evaluated row is built from exactly the      *)
(* window rows whose raw value is finite and whose label is not spike; a   *)
(* row labelled spike enters the histogram of no later row.                *)
C4_FeedbackExclusion ==
    last.kind = "eval" =>
        /\ last.inc = LastUsable
        /\ \A j \in last.window : are_spikes[j + 1] => j \notin last.inc
        /\ \A j \in last.report_read : are_spikes[j + 1] => j \notin last.report_inc

\* an evaluated row whose window holds a finite row labelled spike
C4_Witness ==
    /\ last.kind = "eval"
    /\ \E j \in last.window : are_spikes[j + 1] /\ isfinite(data[j + 1].raw)
    /\ last.inc # {}

(* C5: a row i >= min_entries whose window holds fewer than                *)
(* min_entries - 1 finite raw values is skipped: no interval is computed,  *)
(* its label stays False and the scan goes on with row i+1.                *)
C5_TooFewValidSkipped ==
    (last.kind # "none" /\ last.index >= min_entries
       /\ Cardinality({j \in window_of(data, last.index) : isfinite(data[j + 1].raw)})
             < min_entries - 1) =>
        /\ last.kind = "skip"
        /\ last.limit_range = <<>> /\ last.inc = {}
        /\ ~LastLabel
        /\ index = last.index + 1 /\ pc \in {"for", "done"}

\* a skipped row whose window is one finite value short
C5_Witness ==
    /\ last.kind = "skip" /\ last.index >= min_entries
    /\ last.nValid = min_entries - 2
    /\ index = last.index + 1

(* C6: when the finite, not previously flagged rows of the window of a row *)
(* past the warm-up are none, the row is skipped like one with too few     *)
(* valid entries: no interval, no classification, label False.             *)
C6_EmptyFilteredSkipped ==
    (PastWarmup /\ LastUsable = {}) =>
        /\ last.kind = "skip"
        /\ last.limit_range = <<>>
        /\ ~LastLabel

(* C10: an evaluated row whose raw value is NaN is labelled False whatever *)
(* the interval computed for it, and the scan goes on.                     *)
C10_MissingNotSpike ==
    (last.kind = "eval" /\ isnull(LastRaw)) =>
        /\ ~LastLabel /\ ~last.this_is_spike
        /\ Len(last.limit_range) = 2
        /\ pc \in {"for", "report", "done"}

\* an evaluated row without a raw value, its interval computed
C10_Witness ==
    /\ last.kind = "eval" /\ isnull(LastRaw)
    /\ Len(last.limit_range) = 2
    /\ index = last.index + 1

(* C11: write-once finality.  An entry of are_spikes changes only in the   *)
(* step that classifies its own row (pc = "for", the row is index); that   *)
(* step writes the row at hand and leaves it behind (the scan moves on, or *)
(* only the report of the row remains), so no row is written twice; and    *)
(* no step changes an entry below index, nor the entry of a row being      *)
(* reported.                                                               *)
C11_WriteOnceFinal ==
    [][ /\ Len(are_spikes') = Len(are_spikes)
        /\ \A i \in 0..(Len(are_spikes) - 1) :
              /\ are_spikes'[i + 1] # are_spikes[i + 1] =>
                     /\ pc = "for" /\ i = index
                     /\ last'.kind = "eval" /\ last'.index = i
                     /\ (index' = i + 1 \/ pc' = "report")
              /\ (i < index \/ (i = index /\ pc = "report")) =>
                     are_spikes'[i + 1] = are_spikes[i + 1]
        /\ index' >= index ]_vars

\* a row was labelled spike and the scan has evaluated a later row since
C11_Witness ==
    /\ last.kind = "eval" /\ pc = "for"
    /\ \E i \in 0..(last.index - 1) : are_spikes[i + 1]

(* C19: cancellation safety.  completed holds, for every row whose         *)
(* iteration is over, the label the row had at that moment.  In every      *)
(* state, the final one included, the entries of are_spikes for those rows *)
(* are these labels, and completed only grows: a scan stopped after row k  *)
(* holds for rows 0..k the labels of the scan that runs to its end.        *)
C19_CompletedLabelsStand ==
    /\ [](\A k \in 1..Len(completed) : are_spikes[k] = completed[k])
    /\ [][ /\ Len(completed') >= Len(completed)
           /\ SubSeq(completed', 1, Len(completed)) = completed ]_vars

\* the scan is between two rows past the warm-up, rows are left, and a
\* completed row is labelled spike
C19_Witness ==
    /\ pc = "for" /\ index > min_entries /\ index < Len(data)
    /\ \E k \in 1..Len(completed) : completed[k] /\ are_spikes[k]

\* the readings that entered the histogram of the latest evaluated row
LastIncluded == {data[j + 1].raw.v : j \in last.inc}

(* C14: at an evaluated row whose histogram was built from readings that   *)
(* all equal one value c, a raw value in [c - buffer, c + buffer] is not a *)
(* spike and every raw value above c + buffer is a spike.                  *)
C14_ConstantWindowBuffer ==
    (last.kind = "eval" /\ ~isnull(LastRaw) /\ Cardinality(LastIncluded) = 1) =>
        LET c == SetMin(LastIncluded)
        IN  /\ (c - buffer <= LastRaw.v /\ LastRaw.v <= c + buffer) => ~LastLabel
            /\ LastRaw.v > c + buffer => LastLabel

\* the latest evaluated row has a window of twice min_entries readings, all
\* of them finite and not flagged, that reach from 0 to 1
SpreadWindow ==
    /\ last.kind = "eval"
    /\ Cardinality(last.window) = 2 * min_entries /\ last.inc = last.window
    /\ SetMin(LastIncluded) = 0 /\ SetMax(LastIncluded) = Milli

(* C15: for a window of 200 finite, not flagged readings spread over       *)
(* [0, 1], with the default nbins, cdf_limits and buffer, the interval is  *)
(* [-0.15, 1.15] to within 0.01, a candidate of 5.0 is a spike and a       *)
(* candidate of 0.5 is not.                                                *)
C15_SpreadWindowScenario ==
    SpreadWindow =>
        /\ Abs(last.limit_range[1] - (0 - buffer)) <= Milli \div 100
        /\ Abs(last.limit_range[2] - (Milli + buffer)) <= Milli \div 100
        /\ LastRaw = F(5 * Milli) => LastLabel
        /\ LastRaw = F(Milli \div 2) => ~LastLabel

\* the candidate 5.0 after the spread readings, labelled spike
C15_Witness ==
    /\ SpreadWindow /\ pc = "done"
    /\ LastRaw = F(5 * Milli) /\ LastLabel

\* the rows the scan evaluated: past the warm-up and not skipped
EvaluatedRows ==
    {i \in 0..(Len(data) - 1) :
        ~is_warmup(i) /\ ~not_enough(nValid_of(subdata_of(data, i)))}

(* C16: the four counts of the confusion matrix sum to the number of rows  *)
(* that were evaluated, the rows that were neither in the warm-up nor      *)
(* skipped for too few valid entries.                                      *)
C16_CountsSumToEvaluated ==
    counts # NoCounts => total(counts) = Cardinality(EvaluatedRows)

(* C18: no step of the scan ends in an exception, whatever the readings    *)
(* (finite or NaN) and whatever the labels given before: the scan is never *)
(* in the error state, a row past its warm-up test and sufficiency test    *)
(* gets an interval of two bounds and the label that interval decides, a   *)
(* row stopped by one of the tests keeps the default False, and at the     *)
(* end every row has had its iteration.                                    *)
C18_NoErrorState ==
    /\ pc # "error" /\ last.kind # "raise"
    /\ last.kind \in {"warmup", "skip"} => ~LastLabel
    /\ last.kind = "eval" =>
           /\ Len(last.limit_range) = 2
           /\ LastLabel = last.this_is_spike
    /\ \A k \in 1..Len(completed) : completed[k] \in BOOLEAN
    /\ pc = "done" => Len(completed) = Len(data)

\* the scan is over; its last row, a missing reading, was evaluated over a
\* window that holds a flagged row
C18_Witness ==
    /\ pc = "done" /\ last.kind = "eval" /\ last.index = Len(data) - 1
    /\ isnull(LastRaw)
    /\ \E j \in last.window : are_spikes[j + 1]

\* what is left of the scan: two steps at most for a row (its iteration and
\* its report), one to leave the loop
steps_left ==
    IF pc = "done" THEN 0
    ELSE 2 * (Len(data) - index) + (IF pc = "report" THEN 0 ELSE 1)

(* C20: the scan takes the rows 0 .. N-1 in this order, each once: the    *)
(* number of iterations over is index, an iteration is that of row index   *)
(* and ends with index + 1, and no other step changes index.  Every step   *)
(* of the scan brings its end nearer (steps_left, never negative,          *)
(* decreases), so the scan terminates; at its end index = N and            *)
(* are_spikes has N entries, all boolean.                                  *)
C20_EachRowOnceThenDone ==
    /\ []( /\ Len(completed) = index /\ index <= Len(data) /\ steps_left >= 0
           /\ pc = "done" =>
                  /\ index = Len(data) /\ Len(are_spikes) = Len(data)
                  /\ \A i \in 1..Len(are_spikes) : are_spikes[i] \in BOOLEAN )
    /\ [][ /\ (pc = "for" /\ pc' # "done") =>
                  /\ last'.index = index /\ last'.kind \in {"warmup", "skip", "eval"}
                  /\ (index' = index + 1 /\ pc' = "for") \/ (index' = index /\ pc' = "report")
           /\ pc = "report" => (index' = index + 1 /\ pc' = "for")
           /\ (pc = "done" \/ pc' = "done") => index' = index
           /\ pc # "done" => steps_left' < steps_left ]_vars

\* the scan of an input with rows past the warm-up is over
C20_Witness ==
    /\ pc = "done" /\ Len(data) > min_entries
    /\ index = Len(data) /\ Len(completed) = Len(data)

(* C21: the report of a row (plots and prints) changes neither the input   *)
(* nor a label, and it leaves the scan where the iteration of a row that   *)
(* is not reported leaves it: at the next row, with the label written      *)
(* before the report.  What the later iterations read (data, are_spikes,   *)
(* index) is therefore the same with and without the report.               *)
C21_ReportChangesNothing ==
    [][ pc = "report" =>
           /\ data' = data /\ are_spikes' = are_spikes
           /\ index' = index + 1 /\ pc' = "for"
           /\ completed' = Append(completed, are_spikes[index + 1])
           /\ last'.this_is_spike = last.this_is_spike
           /\ last'.limit_range = last.limit_range ]_vars

\* a flagged row has been reported, while a later row was still unprocessed
\* when the report read the window
C21_Witness ==
    /\ last.kind = "eval" /\ last.reported /\ LastLabel
    /\ pc = "for" /\ index = last.index + 1 /\ index < Len(data)
    /\ last.report_inc # {}

(* C22: the reads of are_spikes made by the iteration of a row, those of   *)
(* line 503 for the histogram and those of line 516 for the report, are    *)
(* of rows whose iteration is over, that is of rows before the row.        *)
C22_ReadsOnlyCompletedLabels ==
    last.kind = "eval" =>
        \A j \in last.window \cup last.report_read : j < last.index

\* the predicted label of the latest row differs from its true label
LastDisagrees == LastLabel # true_is_spike(data[last.index + 1])

(* C25: a report is made of an evaluated row only, and the iteration of    *)
(* an evaluated row makes one exactly when the row is flagged or its       *)
(* predicted label differs from its true label; the iteration of a         *)
(* warm-up row or of a skipped row makes none.                             *)
C25_ReportedIffFlaggedOrWrong ==
    /\ pc = "report" =>
          /\ last.kind = "eval" /\ last.index = index
          /\ LastLabel \/ LastDisagrees
    /\ (pc \in {"for", "done"} /\ last.kind # "none") =>
          (last.reported <=> (last.kind = "eval" /\ (LastLabel \/ LastDisagrees)))

\* the report of a row that is not flagged but is a true spike, then the
\* end of the scan; before it, an evaluated row without report
C25_Witness ==
    /\ pc = "done" /\ last.kind = "eval" /\ last.reported
    /\ ~LastLabel /\ LastDisagrees
    /\ last.index > min_entries
    /\ ~are_spikes[last.index] /\ ~true_is_spike(data[last.index])

(* C27: for the labels and true labels of every input the confusion        *)
(* matrix and the seven measurements are computed, no exception is raised: *)
(* not when no row is predicted a spike, not when no row is a true spike,  *)
(* not when every row is one.                                              *)
C27_MeasurementsNeverRaise ==
    summary # NoSummary => ~summary.raised

(* C29: the histogram of an evaluated row is built from at least           *)
(* min_entries - 1 readings: the window holds that many finite readings    *)
(* that are not flagged.                                                   *)
C29_EnoughIncluded ==
    last.kind = "eval" => Cardinality(last.inc) >= min_entries - 1

(* C30: an evaluated row whose reading is neither below the smallest nor   *)
(* above the largest reading of its histogram is not flagged.              *)
C30_InsideRangeNotSpike ==
    (/\ last.kind = "eval" /\ last.inc # {} /\ isfinite(LastRaw)
     /\ SetMin(LastIncluded) <= LastRaw.v /\ LastRaw.v <= SetMax(LastIncluded))
        => ~LastLabel

---------------------------------------------------------------------------
(* Properties of two runs, checked under RerunSpec.                        *)

\* the second run is under way or over
SecondRun == first # NoRun
\* the two inputs have the same raw values in rows 0 .. i
SameRawUpTo(i) ==
    \A j \in 0..i : j < Len(data) /\ j < Len(first.data)
                      /\ data[j + 1].raw = first.data[j + 1].raw

C13_Causality ==
    (SecondRun /\ pc = "done") =>
        \A i \in 0..(Len(data) - 1) :
            SameRawUpTo(i) =>
                \A j \in 0..i : are_spikes[j + 1] = first.are_spikes[j + 1]

\* the second run is over on an input that has the rows of the first up to
\* a flagged row and another reading in the row after it
C13_Witness ==
    /\ SecondRun /\ pc = "done"
    /\ \E i \in 0..(Len(data) - 2) :
          /\ SameRawUpTo(i) /\ are_spikes[i + 1]
          /\ data[i + 2].raw # first.data[i + 2].raw

\* the two inputs have the same raw value in row i, and the same raw
\* values and labels in the interval rows before it
SameNear(i) ==
    /\ data[i + 1].raw = first.data[i + 1].raw
    /\ \A j \in Max(0, i - interval)..(i - 1) :
          /\ data[j + 1].raw = first.data[j + 1].raw
          /\ are_spikes[j + 1] = first.are_spikes[j + 1]

(* C26: the label of row i is decided by the raw value of the row and by   *)
(* the raw values and labels of the rows i - interval .. i - 1: when two   *)
(* runs agree on these, they give row i the same label, whatever the rows  *)
(* before i - interval hold.                                               *)
C26_Locality ==
    (SecondRun /\ pc = "done" /\ Len(data) = Len(first.data)) =>
        \A i \in 0..(Len(data) - 1) :
            SameNear(i) => are_spikes[i + 1] = first.are_spikes[i + 1]

\* two runs that differ in row 0 and agree on the interval before a later
\* row, which is flagged
C26_Witness ==
    /\ SecondRun /\ pc = "done" /\ Len(data) = Len(first.data)
    /\ data[1].raw # first.data[1].raw
    /\ \E i \in (interval + 1)..(Len(data) - 1) : SameNear(i) /\ are_spikes[i + 1]

\* the two inputs have the same raw column
SameRaw ==
    /\ Len(data) = Len(first.data)
    /\ \A i \in 1..Len(data) : data[i].raw = first.data[i].raw

(* C28: two inputs with the same raw column get the same labels, whatever  *)
(* their accepted columns hold.                                            *)
C28_AcceptedNotRead ==
    (SecondRun /\ pc = "done" /\ SameRaw) => are_spikes = first.are_spikes

\* two runs over the same raw column, which has a flagged row past the
\* warm-up; the accepted columns differ and so do the true spikes
C28_Witness ==
    /\ SecondRun /\ pc = "done" /\ SameRaw
    /\ \E i \in (min_entries + 1)..Len(data) :
          /\ are_spikes[i]
          /\ data[i].accepted # first.data[i].accepted
    /\ \E i \in 1..Len(data) : true_is_spike(data[i]) # true_is_spike(first.data[i])

---------------------------------------------------------------------------
(* Properties of the measurements, checked under MeasureSpec.              *)

(* C17: with TN, FP, FN, TP the counts of (true no, pred no), (true no,    *)
(* pred yes), (true yes, pred no), (true yes, pred yes), the measurements  *)
(* that are computed are accuracy = (TN+TP)/total, precision = TP/(TP+FP), *)
(* sensitivity = TP/(TP+FN), error_rate = (FP+FN)/total,                   *)
(* true_negative_rate = TN/(TN+FP), false_positive_rate = FP/(TN+FP),      *)
(* prevalence = (TP+FN)/total; for TN = 10, FP = 2, FN = 3, TP = 5 they    *)
(* are accuracy 15/20 = 3/4, precision 5/7, sensitivity 5/8.               *)
C17_MeasurementsAreRatios ==
    (summary # NoSummary /\ ~summary.raised) =>
        LET TN == counts.n_predno_trueno
            FP == counts.n_predyes_trueno
            FN == counts.n_predno_trueyes
            TP == counts.n_predyes_trueyes
            all == TN + FP + FN + TP
        IN  /\ SameRatio(summary.accuracy, <<TN + TP, all>>)
            /\ SameRatio(summary.precision, <<TP, TP + FP>>)
            /\ SameRatio(summary.sensitivity, <<TP, TP + FN>>)
            /\ SameRatio(summary.error_rate, <<FP + FN, all>>)
            /\ SameRatio(summary.true_negative_rate, <<TN, TN + FP>>)
            /\ SameRatio(summary.false_positive_rate, <<FP, TN + FP>>)
            /\ SameRatio(summary.prevalence, <<TP + FN, all>>)
            /\ (TN = 10 /\ FP = 2 /\ FN = 3 /\ TP = 5) =>
                   /\ SameRatio(summary.accuracy, <<3, 4>>)
                   /\ summary.accuracy = <<15, 20>>
                   /\ summary.precision = <<5, 7>>
                   /\ summary.sensitivity = <<5, 8>>

\* the measurements of the matrix TN = 10, FP = 2, FN = 3, TP = 5
C17_Witness ==
    /\ summary # NoSummary /\ ~summary.raised
    /\ counts = [n_predno_trueno |-> 10, n_predyes_trueno |-> 2,
                 n_predno_trueyes |-> 3, n_predyes_trueyes |-> 5]

---------------------------------------------------------------------------
(* Properties of build_histogram, checked under HistSpec.                  *)

Returned == hpc = "return"
\* p = P / CdfScale lies outside the cumulative probabilities achieved, or
\* there are none (nothing included)
OutsideCdf(bins, P) ==
    \/ Cardinality(bins) = 0
    \/ P * Cardinality(bins) < CdfScale * cumhist(bins, 0)
    \/ P * Cardinality(bins) > CdfScale * cumhist(bins, nbins - 1)
\* the first bin whose cumulative probability is >= p
FirstReaching(bins, P) ==
    SetMin({k \in 0..(nbins - 1) : CdfScale * cumhist(bins, k) >= P * Cardinality(bins)})
\* the point q is exactly the center of bin k
IsCenter(q, k) ==
    ~q.nan /\ ((q.j = k /\ q.num = 0) \/ (q.j = k - 1 /\ q.num = q.den))

(* C7: for each target probability p of cdf_limits the bound before        *)
(* rounding and buffer is the smallest bin center whose cumulative         *)
(* probability is >= p, for every histogram.                               *)
C7_SmallestCenterReaching ==
    (Returned /\ hout.n > 0) =>
        \A t \in 1..2 : IsCenter(hout.bound[t], FirstReaching(hout.bins, cdf_limits[t]))

(* C7, as amended: the bound before rounding and buffer is the linear      *)
(* interpolation of the bin centers over the cdf.  With k the first bin    *)
(* whose cumulative probability is >= p: for k = 0 it is bincenter[0];     *)
(* otherwise it is bincenter[k-1] + f * (bin width) with                   *)
(* f = (p - cdf[k-1]) / (cdf[k] - cdf[k-1]), 0 < f < 1, so it lies         *)
(* strictly between bincenter[k-1] and bincenter[k].                       *)
C7_LinearInterpolation ==
    (Returned /\ hout.n > 0) =>
        \A t \in 1..2 :
            LET P == cdf_limits[t]
                k == FirstReaching(hout.bins, P)
                q == hout.bound[t]
            IN  IF k = 0 THEN IsCenter(q, 0)
                ELSE /\ ~q.nan /\ q.j = k - 1
                     /\ q.num = P * hout.n - CdfScale * cumhist(hout.bins, k - 1)
                     /\ q.den = CdfScale * (cumhist(hout.bins, k) - cumhist(hout.bins, k - 1))
                     /\ 0 < q.num /\ q.num < q.den

\* a histogram of several distinct values whose upper bound is interpolated
\* inside the last bin step
C7_Witness ==
    /\ Returned /\ hout.n >= 2
    /\ hout.edges.last - hout.edges.first # Milli
    /\ ~hout.icdf[2].nan /\ hout.bound[2].j = nbins - 2 /\ hout.bound[2].num > 0

(* C8: a target probability outside the range of cumulative probabilities  *)
(* achieved (or with no cumulative probability at all) makes the lower     *)
(* bound the minimum bin center and the upper bound the maximum one; the   *)
(* interval is still returned.                                             *)
C8_FallbackToExtremeCenter ==
    Returned =>
        /\ OutsideCdf(hout.bins, cdf_limits[1]) =>
               /\ hout.bound[1] = Center(0)
               /\ hout.limit_range[1] = round3(hout.edges, Center(0)) - buffer
        /\ OutsideCdf(hout.bins, cdf_limits[2]) =>
               /\ hout.bound[2] = Center(nbins - 1)
               /\ hout.limit_range[2] = round3(hout.edges, Center(nbins - 1)) + buffer

\* a window of readings that are all flagged: no cumulative probability,
\* both bounds fall back
C8_Witness ==
    /\ Returned /\ Len(hsub) > 0 /\ hout.n = 0
    /\ hout.icdf[1].nan /\ hout.icdf[2].nan
    /\ hout.limit_range = <<6 - buffer, 994 + buffer>>

CdfGreater(bins, a, b) ==
    Cardinality(bins) > 0 /\ cumhist(bins, a) > cumhist(bins, b)

IsRounded(t, e, q) ==
    LET md == MulDiv(2 * (e.last - e.first), q.num, q.den)
        D  == bincenter(e, q.j) + md[1] - 2 * nbins * t
        half == md[2] = 0 /\ (D = nbins \/ D = -nbins)
    IN  /\ -nbins <= D
        /\ D < nbins \/ (D = nbins /\ md[2] = 0)
        /\ half => t % 2 = 0

(* C24: the bounds returned are the two estimates, each rounded to three   *)
(* decimals first and moved outward by buffer afterwards:                  *)
(* lower = round3 (q_low) - buffer and upper = round3 (q_high) + buffer.   *)
C24_RoundThenBuffer ==
    Returned =>
        /\ IsRounded(hout.limit_range[1] + buffer, hout.edges, hout.bound[1])
        /\ IsRounded(hout.limit_range[2] - buffer, hout.edges, hout.bound[2])

\* both estimates have digits after the third, the lower one is rounded up
\* and the upper one down
C24_Witness ==
    /\ Returned /\ hout.n > 0
    /\ 2 * nbins * (hout.limit_range[1] + buffer) > bincenter(hout.edges, hout.bound[1].j)
    /\ hout.bound[2].num > 0
    /\ 2 * nbins * (hout.limit_range[2] - buffer) < bincenter(hout.edges, hout.bound[2].j + 1)
    /\ 2 * nbins * (hout.limit_range[2] - buffer) > bincenter(hout.edges, hout.bound[2].j)

=============================================================================
